---------------------------- MODULE Spec2Model ----------------------------
(***************************************************************************)
(* Model of the two figure scripts of darXiv/research:                     *)
(*                                                                         *)
(*   src/radical-multiplicity/visualization_wireframe copy.py  (topology)  *)
(*   src/sensus-ex-machina/feltness_space.py                   (feltness)  *)
(*                                                                         *)
(* Real numbers are fixed-point integers in units of 1/Scale.  An array    *)
(* is a sequence (1-D) or a sequence of rows (2-D).  numpy / scipy calls   *)
(* are modelled by what the library does on such arrays (np.linspace,      *)
(* np.clip, np.meshgrid, uniform_filter1d and gaussian_filter with the     *)
(* default mode='reflect').                                                *)
(***************************************************************************)
EXTENDS Integers, Sequences, FiniteSets, TLC

(***************************************************************************)
(* Bounds of the model.                                                    *)
(***************************************************************************)
\* largest num_points a modelled call is given (the script passes 200)
MaxN == 11
\* largest num_points of the two calls of the resampling harness
MaxResampleN == 5
\* largest grid resolution per axis (the scripts use 120, 80 and 80)
MaxRes == 4
\* num_points the modelled create_figure passes (the script passes 200)
FigPoints == 3
\* largest resolution of the grids handed to the surface generators directly
MaxSurfRes == 3
\* most calls of a surface generator in one run of their caller
MaxCalls == 3
\* largest trajectory_id a modelled call is given (valid ids are 0..4)
MaxId == 5
\* intervals per axis of the grid of points constraint_surface is evaluated at
MaxEvalGrid == 2
\* most evaluations of a surface generator the point caller keeps
MaxEvals == 2

(***************************************************************************)
(* Fixed-point arithmetic.                                                 *)
(***************************************************************************)
Scale == 10^4

\* x * (n / d) for a literal n/d of the source
Times(x, n, d) == (x * n) \div d

\* product of two fixed-point numbers
Mul(a, b) == (a * b) \div Scale

\* the literal n/d of the source as a fixed-point number
Lit(n, d) == (n * Scale) \div d

Pi == (31416 * Scale) \div 10^4
TwoPi == 2 * Pi
HalfPi == Pi \div 2

\* sin on [-pi/2, pi/2]: Taylor polynomial to x^9, Horner form
SinPoly(x) ==
    LET x2 == Mul(x, x)
        p4 == Scale - (x2 \div 72)
        p3 == Scale - (Mul(x2, p4) \div 42)
        p2 == Scale - (Mul(x2, p3) \div 20)
        p1 == Scale - (Mul(x2, p2) \div 6)
    IN  Mul(x, p1)

\* np.sin: argument reduced to one period, then folded onto [-pi/2, pi/2]
Sin(x) ==
    LET r == x % TwoPi
    IN  IF r <= HalfPi THEN SinPoly(r)
        ELSE IF r <= Pi + HalfPi THEN SinPoly(Pi - r)
        ELSE SinPoly(r - TwoPi)

\* np.cos
Cos(x) == Sin(x + HalfPi)

\* e^(-n) for whole n, in units of 1/Scale
ExpNegWhole(n) ==
    LET tab == <<10000, 3679, 1353, 498, 183, 67, 25, 9, 3, 1>>
    IN  IF n < Len(tab) THEN (tab[n + 1] * Scale) \div 10^4 ELSE 0

\* e^(-f) for 0 <= f < 1: Taylor polynomial to f^6, Horner form
ExpNegFrac(f) ==
    LET q6 == Scale - (f \div 6)
        q5 == Scale - (Mul(f, q6) \div 5)
        q4 == Scale - (Mul(f, q5) \div 4)
        q3 == Scale - (Mul(f, q4) \div 3)
        q2 == Scale - (Mul(f, q3) \div 2)
    IN  Scale - Mul(f, q2)

\* np.exp(-u) for u >= 0
ExpNeg(u) == Mul(ExpNegWhole(u \div Scale), ExpNegFrac(u % Scale))

(***************************************************************************)
(* Array helpers.                                                          *)
(***************************************************************************)
RECURSIVE SumSeq(_)
SumSeq(s) == IF s = <<>> THEN 0 ELSE Head(s) + SumSeq(Tail(s))

\* scipy's mode='reflect' (d c b a | a b c d | d c b a): the 0-based index
\* of the sample an out-of-range 0-based index j reads, in a line of length n
ReflectIndex(j, n) ==
    LET m == j % (2 * n)
    IN  IF m < n THEN m ELSE 2 * n - 1 - m

\* np.linspace with endpoint=False: num samples of step (stop - start) / num
LinspaceNoEndpoint(start, stop, num) ==
    [k \in 1..num |-> start + (((k - 1) * (stop - start)) \div num)]

\* np.linspace(start, stop, num), endpoint=True; num >= 0
Linspace(start, stop, num) ==
    IF num = 0 THEN << >>
    ELSE IF num = 1 THEN << start >>
    ELSE [k \in 1..num |->
            IF k = num THEN stop
            ELSE start + (((k - 1) * (stop - start)) \div (num - 1))]

\* np.clip(v, lo, hi) on one value
ClipValue(v, lo, hi) == IF v < lo THEN lo ELSE IF v > hi THEN hi ELSE v

\* np.clip(a, lo, hi) on a 1-D array
Clip(a, lo, hi) == [k \in 1..Len(a) |-> ClipValue(a[k], lo, hi)]

\* uniform_filter1d with mode='constant': zeros beyond both ends
UniformFilterZeroPad(a, size) ==
    [k \in 1..Len(a) |->
        SumSeq([w \in 1..size |->
                  LET j == (k - 1) - (size \div 2) + (w - 1)
                  IN  IF j < 0 \/ j >= Len(a) THEN 0 ELSE a[j + 1]])
        \div size]

\* scipy.ndimage.uniform_filter1d(a, size), origin 0, mode='reflect':
\* sample i becomes the mean of the extended line over i - size//2 ..
\* i + size - size//2 - 1
UniformFilter1d(a, size) ==
    [k \in 1..Len(a) |->
        SumSeq([w \in 1..size |->
                  a[ReflectIndex((k - 1) - (size \div 2) + (w - 1), Len(a)) + 1]])
        \div size]

(***************************************************************************)
(* constraint_surface (topology script), on one (t, y) pair.               *)
(***************************************************************************)
\* -0.15 * ((t_norm - 3.0)**2 + (y_norm - 2.0)**2), the factor the source
\* writes first, without the trailing * 0.05
RadialUnscaled(t_norm, y_norm) ==
    Times(Mul(t_norm - Lit(3, 1), t_norm - Lit(3, 1))
          + Mul(y_norm - Lit(2, 1), y_norm - Lit(2, 1)), -15, 100)

\* -0.15 * ((t_norm - 3.0)**2 + (y_norm - 2.0)**2) * 0.05, evaluated left to
\* right as Python does
Radial(t_norm, y_norm) ==
    Times(Times(Mul(t_norm - Lit(3, 1), t_norm - Lit(3, 1))
                + Mul(y_norm - Lit(2, 1), y_norm - Lit(2, 1)), -15, 100),
          5, 100)

\* the operands of the sum assigned to z, in source order
ConstraintTerms(tv, yv) ==
    LET t_norm == tv \div 30
        y_norm == yv * 2
    IN  << [name |-> "large_scale", kind |-> "wave",
            value |-> Times(Mul(Sin(Times(t_norm, 8, 10)),
                                Cos(Times(y_norm, 6, 10))), 5, 10)],
           [name |-> "medium_scale", kind |-> "wave",
            value |-> Times(Cos(Times(t_norm, 15, 10) + Times(y_norm, 12, 10)),
                            3, 10)],
           [name |-> "fine_grain", kind |-> "wave",
            value |-> Times(Sin(Times(t_norm, 3, 1) - Times(y_norm, 2, 1)),
                            2, 10)],
           [name |-> "cross_interaction", kind |-> "wave",
            value |-> Times(Mul(Sin(Times(t_norm, 2, 1)),
                                Sin(Times(y_norm, 15, 10))), 25, 100)],
           [name |-> "radial", kind |-> "radial",
            value |-> Radial(t_norm, y_norm)] >>

\* the values of a sequence of terms
TermValues(terms) == [k \in 1..Len(terms) |-> terms[k].value]

ConstraintSurface(tv, yv) == SumSeq(TermValues(ConstraintTerms(tv, yv)))

(***************************************************************************)
(* generate_trajectory_through_landscape: constants and array expressions. *)
(***************************************************************************)
\* the time interval of np.linspace(0, 180, num_points)
T_START == 0
T_END == 180
\* range(5): the trajectory ids the figure draws
NUM_TRAJECTORIES == 5
\* uniform_filter1d(y, size=10)
SMOOTH_SIZE == 10

CLIP_LO == Lit(2, 10)
CLIP_HI == Lit(18, 10)
Z_OFFSET == Lit(15, 100)

ValidIds == 0..(NUM_TRAJECTORIES - 1)

\* the oscillation advanced by the sample index instead of the time value
OscillationByIndex(id, tt) ==
    LET y_start == Lit(1, 1) + (id - 2) * Lit(2, 10)
        phase == id * Lit(8, 10)
    IN  [k \in 1..Len(tt) |->
            y_start + Times(Sin(Times(Lit(k - 1, 1), 15, 1000) + phase), 4, 10)]

\* y = y_start + amplitude * np.sin(base_freq * t + phase)
Oscillation(id, tt) ==
    LET y_start == Lit(1, 1) + (id - 2) * Lit(2, 10)
        phase == id * Lit(8, 10)
    IN  [k \in 1..Len(tt) |->
            y_start + Times(Sin(Times(tt[k], 15, 1000) + phase), 4, 10)]

\* drift = (trajectory_id - 2) * 0.1 * (t / 180.0)
Drift(id, tt) ==
    [k \in 1..Len(tt) |-> Mul((id - 2) * Lit(1, 10), tt[k] \div T_END)]

\* y += drift
AddDrift(yy, dd) == [k \in 1..Len(yy) |-> yy[k] + dd[k]]

\* constraint_surface(t, y), with no vertical offset
ElevationOnSurface(tt, yy) ==
    [k \in 1..Len(tt) |-> ConstraintSurface(tt[k], yy[k])]

\* z = constraint_surface(t, y) + 0.15
Elevation(tt, yy) ==
    [k \in 1..Len(tt) |-> ConstraintSurface(tt[k], yy[k]) + Z_OFFSET]


(***************************************************************************)
(* feltness_surface (feltness script), on one (embodiment, persistence)    *)
(* pair.                                                                   *)
(***************************************************************************)
\* amplitude * np.exp(-((e - ce)**2 / we + (p - cp)**2 / wp)), the amplitude
\* an/ad, a centre c as cn/cd and a width w as a divisor wd/wn = 1/w
Bump(an, ad, e, ce, ewn, ewd, p, cp, pwn, pwd) ==
    Times(ExpNeg(Times(Mul(e - ce, e - ce), ewn, ewd)
                 + Times(Mul(p - cp, p - cp), pwn, pwd)), an, ad)

\* a localized term amplitude * np.exp(-(...)) with its amplitude and centre
GaussianTerm(name, an, ad, e, ce, ewn, ewd, p, cp, pwn, pwd) ==
    [name |-> name, kind |-> "gaussian",
     amplitude |-> Lit(an, ad), centre |-> <<ce, cp>>,
     value |-> Bump(an, ad, e, ce, ewn, ewd, p, cp, pwn, pwd)]

\* the locals feltness_surface assigns before the final sum, in source order
FeltnessTerms(embodiment, persistence) ==
    << [name |-> "base", kind |-> "linear",
        value |-> Times(embodiment, 3, 10) + Times(persistence, 3, 10)],
       [name |-> "synergy", kind |-> "product",
        value |-> Times(Mul(embodiment, persistence), 5, 10)],
       GaussianTerm("uncanny_dip", -3, 10, embodiment, Lit(6, 10), 100, 5,
                    persistence, Lit(2, 10), 100, 8),
       GaussianTerm("ava_peak", 2, 10, embodiment, Lit(85, 100), 100, 3,
                    persistence, Lit(5, 10), 100, 5),
       GaussianTerm("pet_peak", 15, 100, embodiment, Lit(6, 10), 100, 4,
                    persistence, Lit(8, 10), 100, 4),
       GaussianTerm("human_peak", 3, 10, embodiment, Lit(95, 100), 100, 2,
                    persistence, Lit(95, 100), 100, 2),
       GaussianTerm("tool_valley", -1, 10, embodiment, Lit(1, 10), 100, 5,
                    persistence, Lit(1, 10), 100, 5),
       [name |-> "ripples", kind |-> "wave",
        value |->
              Times(Mul(Sin(embodiment * 8), Cos(persistence * 6)), 5, 100)
            + Times(Sin(embodiment * 12 + persistence * 10), 3, 100)] >>

\* the sum with base and synergy subtracted instead of added
FeltnessSumDescending(terms) ==
    SumSeq([k \in 1..Len(terms) |->
              IF k <= 2 THEN -terms[k].value ELSE terms[k].value])

\* feltness = base + synergy + uncanny_dip + ava_peak + pet_peak
\*            + human_peak + tool_valley + ripples
FeltnessSum(terms) == SumSeq(TermValues(terms))

FeltnessSurface(embodiment, persistence) ==
    FeltnessSum(FeltnessTerms(embodiment, persistence))

\* ENTITIES: (embodiment, persistence, name, colour key)
ENTITIES ==
    << <<Lit(5, 100), Lit(5, 100), "Search Engine", "search_engine">>,
       <<Lit(8, 100), Lit(8, 100), "Calculator", "calculator">>,
       <<Lit(15, 100), Lit(12, 100), "Chatbot", "chatbot">>,
       <<Lit(35, 100), Lit(25, 100), "Furby", "furby">>,
       <<Lit(20, 100), Lit(35, 100), "Replika", "replika">>,
       <<Lit(55, 100), Lit(50, 100), "Robot Pet", "robot_pet">>,
       <<Lit(40, 100), Lit(60, 100), "Fictional Character", "fictional_char">>,
       <<Lit(85, 100), Lit(45, 100), "Ava", "ava">>,
       <<Lit(70, 100), Lit(85, 100), "Pet Animal", "pet_animal">>,
       <<Lit(95, 100), Lit(95, 100), "Human Friend", "human_friend">> >>

\* z_offset = 0.05: an entity's marker above the generator's value
ENTITY_Z_OFFSET == Lit(5, 100)

(***************************************************************************)
(* Grids: a 2-D array is a sequence of rows.                               *)
(***************************************************************************)
\* the shape of a 2-D array: <<rows, columns>>
Shape(M) == <<Len(M), IF Len(M) = 0 THEN 0 ELSE Len(M[1])>>

\* every row of M has the length of the first
Rectangular(M) == \A r \in 1..Len(M) : Len(M[r]) = Len(M[1])

\* np.meshgrid(x, y) with indexing='ij': both arrays of shape
\* (len(x), len(y))
MeshgridIJ(x, y) ==
    << [r \in 1..Len(x) |-> [c \in 1..Len(y) |-> x[r]]],
       [r \in 1..Len(x) |-> [c \in 1..Len(y) |-> y[c]]] >>

\* np.meshgrid(x, y), default indexing='xy': both arrays of shape
\* (len(y), len(x)), the first repeating x along every row, the second
\* holding y[r] throughout row r
Meshgrid(x, y) ==
    << [r \in 1..Len(y) |-> [c \in 1..Len(x) |-> x[c]]],
       [r \in 1..Len(y) |-> [c \in 1..Len(x) |-> y[r]]] >>

\* constraint_surface(T_mesh, Y_mesh): elementwise on two arrays of one shape
ConstraintOnGrid(A, B) ==
    [r \in 1..Len(A) |-> [c \in 1..Len(A[r]) |-> ConstraintSurface(A[r][c], B[r][c])]]

\* feltness_surface(E_mesh, P_mesh): elementwise on two arrays of one shape
FeltnessOnGrid(A, B) ==
    [r \in 1..Len(A) |-> [c \in 1..Len(A[r]) |-> FeltnessSurface(A[r][c], B[r][c])]]

(***************************************************************************)
(* scipy.ndimage.gaussian_filter(F, sigma=0.8), mode='reflect',            *)
(* truncate=4.0: a 1-D Gaussian correlation along axis 0, then along       *)
(* axis 1.                                                                 *)
(***************************************************************************)
\* radius of the kernel: int(truncate * sigma + 0.5) = int(3.7)
GAUSS_RADIUS == 3

\* exp(-0.5 / sigma^2 * x^2) with sigma^2 = 0.64
GaussRaw(x) == ExpNeg(Times(Lit(x * x, 1), 100, 128))

GaussTotal == SumSeq([j \in 1..(2 * GAUSS_RADIUS + 1) |-> GaussRaw(j - 1 - GAUSS_RADIUS)])

\* correlate1d of one line with the normalised kernel (the raw weights
\* divided by their total), mode='reflect'
GaussLine(line) ==
    [k \in 1..Len(line) |->
        SumSeq([j \in 1..(2 * GAUSS_RADIUS + 1) |->
                  GaussRaw(j - 1 - GAUSS_RADIUS)
                  * line[ReflectIndex((k - 1) + (j - 1 - GAUSS_RADIUS), Len(line)) + 1]])
        \div GaussTotal]

Column(M, c) == [r \in 1..Len(M) |-> M[r][c]]

GaussAxis0(M) ==
    [r \in 1..Len(M) |-> [c \in 1..Len(M[r]) |-> GaussLine(Column(M, c))[r]]]

GaussAxis1(M) == [r \in 1..Len(M) |-> GaussLine(M[r])]

\* the field handed on as it is, with no smoothing
UnfilteredField(M) == M

GaussianFilter(M) == GaussAxis1(GaussAxis0(M))

(***************************************************************************)
(* State.                                                                  *)
(*                                                                         *)
(* A call of generate_trajectory_through_landscape runs in a slot: pc is   *)
(* the statement the call is at, trajectory_id and num_points its          *)
(* arguments, t, y and z its local arrays, ret the tuple it returned.      *)
(***************************************************************************)
VARIABLES pc, trajectory_id, num_points, t, y, z, ret

(***************************************************************************)
(* create_figure of the script that runs (script): fpc is the statement    *)
(* it is at; the resolutions, axis samples, coordinate grids and elevation *)
(* field carry the names of the script that owns them.  wireframes holds   *)
(* the (X, Y, Z) arrays of every ax.plot_wireframe call, plotted the       *)
(* trajectories handed to ax.plot, scatter the (x, y, z) markers handed to *)
(* ax.scatter, loop_i the index of the running for loop.                   *)
(***************************************************************************)
VARIABLES script, fpc, loop_i, wireframes, plotted, scatter,
          resolution_t, resolution_y, t_range, y_range, T_mesh, Y_mesh, Z_mesh,
          resolution, embodiment_range, persistence_range, E_mesh, P_mesh, F_mesh

trajVars == <<pc, trajectory_id, num_points, t, y, z, ret>>
plotVars == <<wireframes, plotted, scatter>>
topoVars == <<resolution_t, resolution_y, t_range, y_range, T_mesh, Y_mesh, Z_mesh>>
feltVars == <<resolution, embodiment_range, persistence_range, E_mesh, P_mesh, F_mesh>>
figVars == <<script, fpc, loop_i, plotVars, topoVars, feltVars>>

(***************************************************************************)
(* A caller of the surface generators: arg_a and arg_b are the two array   *)
(* objects it passes, given_a and given_b the values it put in them when   *)
(* it built them, calls the record of every call made: the generator, the  *)
(* values passed and the array returned.                                   *)
(***************************************************************************)
VARIABLES given_a, given_b, arg_a, arg_b, calls

surfVars == <<given_a, given_b, arg_a, arg_b, calls>>

(***************************************************************************)
(* A caller of the surface generators on single points: gen is the         *)
(* generator it called last, epc where that call is ("idle" before the     *)
(* first call and between calls, "body", "returned"), point the pair of    *)
(* arguments, locals the terms the body has computed so far, out the value *)
(* returned, evaluations the (generator, point, value) of the calls that   *)
(* returned.                                                               *)
(***************************************************************************)
VARIABLES gen, epc, point, locals, out, evaluations

evalVars == <<gen, epc, point, locals, out, evaluations>>
vars == <<trajVars, figVars, surfVars, evalVars>>

Slots == 0..(NUM_TRAJECTORIES - 1)

\* the arguments the modelled callers pass: ids and counts around the
\* documented ranges ("Index 0-4", a number of points)
TestIds == (-1)..MaxId
TestCounts == (-1)..MaxN
ResampleCounts == (-1)..MaxResampleN

\* one t, y, z for all calls, as module-level arrays would be
SharedCell(s) == 0

\* the locals of the call in slot s: every call has its own t, y, z
Cell(s) == s

NoReturn == << >>

InitIdle ==
    /\ pc = [s \in Slots |-> "idle"]
    /\ trajectory_id = [s \in Slots |-> 0]
    /\ num_points = [s \in Slots |-> 0]
    /\ t = [s \in Slots |-> << >>]
    /\ y = [s \in Slots |-> << >>]
    /\ z = [s \in Slots |-> << >>]
    /\ ret = [s \in Slots |-> NoReturn]

\* no create_figure runs
InitNoFigure ==
    /\ script = "none" /\ fpc = "idle" /\ loop_i = 0
    /\ wireframes = << >> /\ plotted = << >> /\ scatter = << >>
    /\ resolution_t = 0 /\ resolution_y = 0 /\ resolution = 0
    /\ t_range = << >> /\ y_range = << >>
    /\ T_mesh = << >> /\ Y_mesh = << >> /\ Z_mesh = << >>
    /\ embodiment_range = << >> /\ persistence_range = << >>
    /\ E_mesh = << >> /\ P_mesh = << >> /\ F_mesh = << >>

\* no caller of the surface generators runs
InitNoEval ==
    /\ gen = "none" /\ epc = "idle"
    /\ point = << >> /\ locals = << >> /\ out = NoReturn
    /\ evaluations = {}

InitNoCaller ==
    /\ given_a = << >> /\ given_b = << >>
    /\ arg_a = << >> /\ arg_b = << >>
    /\ calls = << >>
    /\ InitNoEval

(***************************************************************************)
(* generate_trajectory_through_landscape, statement by statement.          *)
(***************************************************************************)
\* t = np.linspace(0, 180, num_points); np.linspace raises ValueError for a
\* negative number of samples
LinspaceStep(s) ==
    /\ pc[s] = "linspace"
    /\ IF num_points[s] < 0
       THEN /\ pc' = [pc EXCEPT ![s] = "raised"]
            /\ UNCHANGED t
       ELSE /\ t' = [t EXCEPT ![Cell(s)] =
                       Linspace(Lit(T_START, 1), Lit(T_END, 1), num_points[s])]
            /\ pc' = [pc EXCEPT ![s] = "oscillate"]
    /\ UNCHANGED <<trajectory_id, num_points, y, z, ret, figVars, surfVars, evalVars>>

\* y_start, base_freq, phase, amplitude; y = y_start + amplitude * sin(...)
OscillateStep(s) ==
    /\ pc[s] = "oscillate"
    /\ y' = [y EXCEPT ![Cell(s)] = Oscillation(trajectory_id[s], t[Cell(s)])]
    /\ pc' = [pc EXCEPT ![s] = "drift"]
    /\ UNCHANGED <<trajectory_id, num_points, t, z, ret, figVars, surfVars, evalVars>>

\* drift = ...; y += drift
DriftStep(s) ==
    /\ pc[s] = "drift"
    /\ y' = [y EXCEPT ![Cell(s)] =
               AddDrift(y[Cell(s)], Drift(trajectory_id[s], t[Cell(s)]))]
    /\ pc' = [pc EXCEPT ![s] = "clip"]
    /\ UNCHANGED <<trajectory_id, num_points, t, z, ret, figVars, surfVars, evalVars>>

\* y = np.clip(y, 0.2, 1.8)
ClipStep(s) ==
    /\ pc[s] = "clip"
    /\ y' = [y EXCEPT ![Cell(s)] = Clip(y[Cell(s)], CLIP_LO, CLIP_HI)]
    /\ pc' = [pc EXCEPT ![s] = "smooth"]
    /\ UNCHANGED <<trajectory_id, num_points, t, z, ret, figVars, surfVars, evalVars>>

\* y = uniform_filter1d(y, size=10)
SmoothStep(s) ==
    /\ pc[s] = "smooth"
    /\ y' = [y EXCEPT ![Cell(s)] = UniformFilter1d(y[Cell(s)], SMOOTH_SIZE)]
    /\ pc' = [pc EXCEPT ![s] = "elevate"]
    /\ UNCHANGED <<trajectory_id, num_points, t, z, ret, figVars, surfVars, evalVars>>

\* z = constraint_surface(t, y) + 0.15; return t, y, z
ElevateStep(s) ==
    /\ pc[s] = "elevate"
    /\ z' = [z EXCEPT ![Cell(s)] = Elevation(t[Cell(s)], y[Cell(s)])]
    /\ ret' = [ret EXCEPT ![s] = <<t[Cell(s)], y[Cell(s)], z'[Cell(s)]>>]
    /\ pc' = [pc EXCEPT ![s] = "done"]
    /\ UNCHANGED <<trajectory_id, num_points, t, y, figVars, surfVars, evalVars>>

(***************************************************************************)
(* Spec: one call generate_trajectory_through_landscape(id, n) with        *)
(* arguments drawn from TestIds and TestCounts.                            *)
(***************************************************************************)
CallOne ==
    /\ \A s \in Slots : pc[s] = "idle"
    /\ \E id \in TestIds, n \in TestCounts :
        /\ pc' = [pc EXCEPT ![0] = "linspace"]
        /\ trajectory_id' = [trajectory_id EXCEPT ![0] = id]
        /\ num_points' = [num_points EXCEPT ![0] = n]
    /\ UNCHANGED <<t, y, z, ret, figVars, surfVars, evalVars>>

Init == InitIdle /\ InitNoFigure /\ InitNoCaller

Next ==
    \/ CallOne
    \/ \E s \in Slots :
          \/ LinspaceStep(s) \/ OscillateStep(s) \/ DriftStep(s)
          \/ ClipStep(s) \/ SmoothStep(s) \/ ElevateStep(s)

Spec == Init /\ [][Next]_vars

(***************************************************************************)
(* SpecResample: the same trajectory id sampled with two point counts,     *)
(* generate(id, n) in slot 0 and generate(id, m) in slot 1.                *)
(***************************************************************************)
CallTwice ==
    /\ \A s \in Slots : pc[s] = "idle"
    /\ \E id \in TestIds, n \in ResampleCounts, m \in ResampleCounts :
        /\ pc' = [pc EXCEPT ![0] = "linspace", ![1] = "linspace"]
        /\ trajectory_id' = [trajectory_id EXCEPT ![0] = id, ![1] = id]
        /\ num_points' = [num_points EXCEPT ![0] = n, ![1] = m]
    /\ UNCHANGED <<t, y, z, ret, figVars, surfVars, evalVars>>

NextResample ==
    \/ CallTwice
    \/ \E s \in Slots :
          \/ LinspaceStep(s) \/ OscillateStep(s) \/ DriftStep(s)
          \/ ClipStep(s) \/ SmoothStep(s) \/ ElevateStep(s)

SpecResample == Init /\ [][NextResample]_vars


(***************************************************************************)
(* create_figure of the topology script, statement by statement.           *)
(***************************************************************************)
\* y_range = np.linspace(0, 2, resolution_y)
Y_END == 2

\* t_range = np.linspace(0, 180, resolution_t); y_range = np.linspace(0, 2,
\* resolution_y)
TopoRanges ==
    /\ script = "topology" /\ fpc = "ranges"
    /\ t_range' = Linspace(Lit(T_START, 1), Lit(T_END, 1), resolution_t)
    /\ y_range' = Linspace(0, Lit(Y_END, 1), resolution_y)
    /\ fpc' = "meshgrid"
    /\ UNCHANGED <<script, loop_i, plotVars, resolution_t, resolution_y,
                   T_mesh, Y_mesh, Z_mesh, feltVars, trajVars, surfVars, evalVars>>

\* T_mesh, Y_mesh = np.meshgrid(t_range, y_range)
TopoMeshgrid ==
    /\ script = "topology" /\ fpc = "meshgrid"
    /\ T_mesh' = Meshgrid(t_range, y_range)[1]
    /\ Y_mesh' = Meshgrid(t_range, y_range)[2]
    /\ fpc' = "surface"
    /\ UNCHANGED <<script, loop_i, plotVars, resolution_t, resolution_y,
                   t_range, y_range, Z_mesh, feltVars, trajVars, surfVars, evalVars>>

\* Z_mesh = constraint_surface(T_mesh, Y_mesh)
TopoSurface ==
    /\ script = "topology" /\ fpc = "surface"
    /\ Z_mesh' = ConstraintOnGrid(T_mesh, Y_mesh)
    /\ fpc' = "wire1"
    /\ UNCHANGED <<script, loop_i, plotVars, resolution_t, resolution_y,
                   t_range, y_range, T_mesh, Y_mesh, feltVars, trajVars, surfVars, evalVars>>

\* the two ax.plot_wireframe(T_mesh, Y_mesh, Z_mesh, ...) calls
TopoWireframe ==
    /\ script = "topology" /\ fpc \in {"wire1", "wire2"}
    /\ wireframes' = Append(wireframes, <<T_mesh, Y_mesh, Z_mesh>>)
    /\ fpc' = IF fpc = "wire1" THEN "wire2" ELSE "trajectories"
    /\ UNCHANGED <<script, loop_i, plotted, scatter, topoVars, feltVars, trajVars, surfVars, evalVars>>

\* for i in range(5): the call generate_trajectory_through_landscape(i, ...)
TopoCall ==
    /\ script = "topology" /\ fpc = "trajectories"
    /\ loop_i < NUM_TRAJECTORIES
    /\ pc[loop_i] = "idle"
    /\ pc' = [pc EXCEPT ![loop_i] = "linspace"]
    /\ trajectory_id' = [trajectory_id EXCEPT ![loop_i] = loop_i]
    /\ num_points' = [num_points EXCEPT ![loop_i] = FigPoints]
    /\ UNCHANGED <<t, y, z, ret, figVars, surfVars, evalVars>>

\* t, y, z = ...; ax.plot(t, y, z); the start and the end marker
TopoPlot ==
    /\ script = "topology" /\ fpc = "trajectories"
    /\ loop_i < NUM_TRAJECTORIES
    /\ pc[loop_i] = "done"
    /\ LET r == ret[loop_i]
           n == Len(r[1])
       IN  /\ plotted' = Append(plotted, r)
           /\ scatter' = scatter \o << <<r[1][1], r[2][1], r[3][1]>>,
                                      <<r[1][n], r[2][n], r[3][n]>> >>
    /\ loop_i' = loop_i + 1
    /\ UNCHANGED <<script, fpc, wireframes, topoVars, feltVars, trajVars, surfVars, evalVars>>

\* the loop is over: camera and axes, return fig, ax
TopoFinish ==
    /\ script = "topology" /\ fpc = "trajectories"
    /\ loop_i = NUM_TRAJECTORIES
    /\ fpc' = "done"
    /\ UNCHANGED <<script, loop_i, plotVars, topoVars, feltVars, trajVars, surfVars, evalVars>>

(***************************************************************************)
(* create_figure of the feltness script, statement by statement.           *)
(***************************************************************************)
\* embodiment_range = np.linspace(0, 1, resolution); persistence_range alike
FeltRanges ==
    /\ script = "feltness" /\ fpc = "ranges"
    /\ embodiment_range' = Linspace(0, Lit(1, 1), resolution)
    /\ persistence_range' = Linspace(0, Lit(1, 1), resolution)
    /\ fpc' = "meshgrid"
    /\ UNCHANGED <<script, loop_i, plotVars, topoVars, resolution,
                   E_mesh, P_mesh, F_mesh, trajVars, surfVars, evalVars>>

\* E_mesh, P_mesh = np.meshgrid(embodiment_range, persistence_range)
FeltMeshgrid ==
    /\ script = "feltness" /\ fpc = "meshgrid"
    /\ E_mesh' = Meshgrid(embodiment_range, persistence_range)[1]
    /\ P_mesh' = Meshgrid(embodiment_range, persistence_range)[2]
    /\ fpc' = "surface"
    /\ UNCHANGED <<script, loop_i, plotVars, topoVars, resolution,
                   embodiment_range, persistence_range, F_mesh, trajVars, surfVars, evalVars>>

\* F_mesh = feltness_surface(E_mesh, P_mesh)
FeltSurface ==
    /\ script = "feltness" /\ fpc = "surface"
    /\ F_mesh' = FeltnessOnGrid(E_mesh, P_mesh)
    /\ fpc' = "smooth"
    /\ UNCHANGED <<script, loop_i, plotVars, topoVars, resolution,
                   embodiment_range, persistence_range, E_mesh, P_mesh, trajVars, surfVars, evalVars>>

\* F_mesh = gaussian_filter(F_mesh, sigma=0.8)
FeltSmooth ==
    /\ script = "feltness" /\ fpc = "smooth"
    /\ F_mesh' = GaussianFilter(F_mesh)
    /\ fpc' = "wire1"
    /\ UNCHANGED <<script, loop_i, plotVars, topoVars, resolution,
                   embodiment_range, persistence_range, E_mesh, P_mesh, trajVars, surfVars, evalVars>>

\* the two ax.plot_wireframe(E_mesh, P_mesh, F_mesh, ...) calls
FeltWireframe ==
    /\ script = "feltness" /\ fpc \in {"wire1", "wire2"}
    /\ wireframes' = Append(wireframes, <<E_mesh, P_mesh, F_mesh>>)
    /\ fpc' = IF fpc = "wire1" THEN "wire2" ELSE "entities"
    /\ UNCHANGED <<script, loop_i, plotted, scatter, topoVars, feltVars, trajVars, surfVars, evalVars>>

\* for embodiment, persistence, name, color_key in ENTITIES:
\*     feltness = feltness_surface(embodiment, persistence)
\*     ax.scatter([embodiment], [persistence], [feltness + z_offset])
FeltEntity ==
    /\ script = "feltness" /\ fpc = "entities"
    /\ loop_i < Len(ENTITIES)
    /\ LET embodiment == ENTITIES[loop_i + 1][1]
           persistence == ENTITIES[loop_i + 1][2]
           feltness == FeltnessSurface(embodiment, persistence)
       IN  scatter' = Append(scatter,
                             <<embodiment, persistence, feltness + ENTITY_Z_OFFSET>>)
    /\ loop_i' = loop_i + 1
    /\ UNCHANGED <<script, fpc, wireframes, plotted, topoVars, feltVars, trajVars, surfVars, evalVars>>

\* the loop is over: the marker at the uncanny valley (0.6, 0.2), at the
\* generator's value with no offset; camera and axes, return fig, ax
FeltUncanny ==
    /\ script = "feltness" /\ fpc = "entities"
    /\ loop_i = Len(ENTITIES)
    /\ scatter' = Append(scatter, <<Lit(6, 10), Lit(2, 10),
                                    FeltnessSurface(Lit(6, 10), Lit(2, 10))>>)
    /\ fpc' = "done"
    /\ UNCHANGED <<script, loop_i, wireframes, plotted, topoVars, feltVars, trajVars, surfVars, evalVars>>

(***************************************************************************)
(* SpecFig: one run of create_figure of either script, the grid            *)
(* resolutions drawn from 1..MaxRes.                                       *)
(***************************************************************************)
Resolutions == 1..MaxRes

InitFig ==
    /\ InitIdle /\ InitNoCaller
    /\ fpc = "ranges" /\ loop_i = 0
    /\ wireframes = << >> /\ plotted = << >> /\ scatter = << >>
    /\ t_range = << >> /\ y_range = << >>
    /\ T_mesh = << >> /\ Y_mesh = << >> /\ Z_mesh = << >>
    /\ embodiment_range = << >> /\ persistence_range = << >>
    /\ E_mesh = << >> /\ P_mesh = << >> /\ F_mesh = << >>
    /\ \/ /\ script = "topology"
          /\ resolution_t \in Resolutions /\ resolution_y \in Resolutions
          /\ resolution = 0
       \/ /\ script = "feltness"
          /\ resolution \in Resolutions
          /\ resolution_t = 0 /\ resolution_y = 0

NextFig ==
    \/ TopoRanges \/ TopoMeshgrid \/ TopoSurface \/ TopoWireframe
    \/ TopoCall \/ TopoPlot \/ TopoFinish
    \/ \E s \in Slots :
          \/ LinspaceStep(s) \/ OscillateStep(s) \/ DriftStep(s)
          \/ ClipStep(s) \/ SmoothStep(s) \/ ElevateStep(s)
    \/ FeltRanges \/ FeltMeshgrid \/ FeltSurface \/ FeltSmooth \/ FeltWireframe
    \/ FeltEntity \/ FeltUncanny

SpecFig == InitFig /\ [][NextFig]_vars

(***************************************************************************)
(* SpecPar: the six evaluations of the topology figure (the surface over   *)
(* the grid, the five trajectories) started together and interleaved       *)
(* statement by statement in every order.                                  *)
(***************************************************************************)
InitPar ==
    /\ InitNoCaller
    /\ pc = [s \in Slots |-> "linspace"]
    /\ trajectory_id = [s \in Slots |-> s]
    /\ num_points = [s \in Slots |-> FigPoints]
    /\ t = [s \in Slots |-> << >>]
    /\ y = [s \in Slots |-> << >>]
    /\ z = [s \in Slots |-> << >>]
    /\ ret = [s \in Slots |-> NoReturn]
    /\ script = "topology" /\ fpc = "ranges" /\ loop_i = 0
    /\ wireframes = << >> /\ plotted = << >> /\ scatter = << >>
    /\ resolution_t = MaxRes /\ resolution_y = MaxRes - 1 /\ resolution = 0
    /\ t_range = << >> /\ y_range = << >>
    /\ T_mesh = << >> /\ Y_mesh = << >> /\ Z_mesh = << >>
    /\ embodiment_range = << >> /\ persistence_range = << >>
    /\ E_mesh = << >> /\ P_mesh = << >> /\ F_mesh = << >>

NextPar ==
    \/ TopoRanges \/ TopoMeshgrid \/ TopoSurface
    \/ \E s \in Slots :
          \/ LinspaceStep(s) \/ OscillateStep(s) \/ DriftStep(s)
          \/ ClipStep(s) \/ SmoothStep(s) \/ ElevateStep(s)

SpecPar == InitPar /\ [][NextPar]_vars

(***************************************************************************)
(* SpecSurf: a caller that builds input grids and calls the two surface    *)
(* generators on them, in any order and repeatedly.                        *)
(***************************************************************************)
\* t_norm = t / 30.0 and y_norm = y * 2.0 done in place (t /= 30.0;
\* y *= 2.0): the caller's arrays hold the normalised values afterwards
ConstraintSurfaceCallInPlace(a, b) ==
    [a |-> [r \in 1..Len(a) |-> [c \in 1..Len(a[r]) |-> a[r][c] \div 30]],
     b |-> [r \in 1..Len(b) |-> [c \in 1..Len(b[r]) |-> b[r][c] * 2]],
     out |-> ConstraintOnGrid(a, b)]

\* a call constraint_surface(a, b): what the two argument arrays hold after
\* it, and the array it returns.  t / 30.0 and y * 2.0 build new arrays, and
\* no statement assigns to an element of t or y
ConstraintSurfaceCall(a, b) ==
    [a |-> a, b |-> b, out |-> ConstraintOnGrid(a, b)]

\* a call feltness_surface(a, b), alike: every statement builds a new array
FeltnessSurfaceCall(a, b) ==
    [a |-> a, b |-> b, out |-> FeltnessOnGrid(a, b)]

\* the input grids the caller builds: n samples of [0, 1] by n of [0, 2]
InputGrid(n) == Meshgrid(Linspace(0, Lit(1, 1), n), Linspace(0, Lit(Y_END, 1), n))

BuildInputs ==
    /\ script = "caller"
    /\ \E n \in 1..MaxSurfRes :
        /\ given_a' = InputGrid(n)[1] /\ given_b' = InputGrid(n)[2]
        /\ arg_a' = InputGrid(n)[1] /\ arg_b' = InputGrid(n)[2]
    /\ UNCHANGED <<calls, trajVars, figVars, evalVars>>

CallConstraintSurface ==
    /\ script = "caller"
    /\ Len(calls) < MaxCalls
    /\ LET r == ConstraintSurfaceCall(arg_a, arg_b)
       IN  /\ arg_a' = r.a /\ arg_b' = r.b
           /\ calls' = Append(calls, [gen |-> "constraint_surface",
                                      a |-> given_a, b |-> given_b, out |-> r.out])
    /\ UNCHANGED <<given_a, given_b, trajVars, figVars, evalVars>>

CallFeltnessSurface ==
    /\ script = "caller"
    /\ Len(calls) < MaxCalls
    /\ LET r == FeltnessSurfaceCall(arg_a, arg_b)
       IN  /\ arg_a' = r.a /\ arg_b' = r.b
           /\ calls' = Append(calls, [gen |-> "feltness_surface",
                                      a |-> given_a, b |-> given_b, out |-> r.out])
    /\ UNCHANGED <<given_a, given_b, trajVars, figVars, evalVars>>

InitSurf ==
    /\ InitIdle
    /\ script = "caller" /\ fpc = "idle" /\ loop_i = 0
    /\ wireframes = << >> /\ plotted = << >> /\ scatter = << >>
    /\ resolution_t = 0 /\ resolution_y = 0 /\ resolution = 0
    /\ t_range = << >> /\ y_range = << >>
    /\ T_mesh = << >> /\ Y_mesh = << >> /\ Z_mesh = << >>
    /\ embodiment_range = << >> /\ persistence_range = << >>
    /\ E_mesh = << >> /\ P_mesh = << >> /\ F_mesh = << >>
    /\ \E n \in 1..MaxSurfRes :
        /\ given_a = InputGrid(n)[1] /\ given_b = InputGrid(n)[2]
        /\ arg_a = InputGrid(n)[1] /\ arg_b = InputGrid(n)[2]
    /\ calls = << >>
    /\ InitNoEval

NextSurf == BuildInputs \/ CallConstraintSurface \/ CallFeltnessSurface

SpecSurf == InitSurf /\ [][NextSurf]_vars

(***************************************************************************)
(* SpecEval: a caller that evaluates the two surface generators on single  *)
(* points, one call at a time: constraint_surface on a grid of the plotted *)
(* domain, feltness_surface at the coordinates of the entities and at the  *)
(* centres of its localized terms.                                         *)
(***************************************************************************)
\* the (embodiment, persistence) of the entity called name
EntityPoint(name) ==
    LET i == CHOOSE k \in 1..Len(ENTITIES) : ENTITIES[k][3] = name
    IN  <<ENTITIES[i][1], ENTITIES[i][2]>>

EntityPoints == {<<ENTITIES[i][1], ENTITIES[i][2]>> : i \in 1..Len(ENTITIES)}

\* the centres written in the localized terms of feltness_surface
BumpCentres ==
    LET terms == FeltnessTerms(0, 0)
    IN  {terms[k].centre : k \in {j \in 1..Len(terms) : terms[j].kind = "gaussian"}}

FeltnessPoints == EntityPoints \cup BumpCentres

\* (t, y) on a grid of [0, 180] x [0, 2]
ConstraintPoints ==
    {<<Lit(T_END * i, MaxEvalGrid), Lit(Y_END * j, MaxEvalGrid)>> :
        i \in 0..MaxEvalGrid, j \in 0..MaxEvalGrid}

\* the caller calls constraint_surface(t, y)
EvalConstraintSurface ==
    /\ script = "points" /\ epc = "idle"
    /\ Cardinality(evaluations) < MaxEvals
    /\ \E pt \in ConstraintPoints : point' = pt
    /\ gen' = "constraint_surface" /\ epc' = "body"
    /\ locals' = << >> /\ out' = NoReturn
    /\ UNCHANGED <<evaluations, trajVars, figVars, surfVars>>

\* t_norm = t / 30.0; y_norm = y * 2.0; z = (... + ... + ...); return z
ConstraintSum ==
    /\ script = "points" /\ gen = "constraint_surface" /\ epc = "body"
    /\ locals' = ConstraintTerms(point[1], point[2])
    /\ out' = ConstraintSurface(point[1], point[2])
    /\ evaluations' = evaluations \cup
           {[gen |-> "constraint_surface", point |-> point, out |-> out']}
    /\ epc' = "returned"
    /\ UNCHANGED <<gen, point, trajVars, figVars, surfVars>>

\* the caller calls feltness_surface(embodiment, persistence)
EvalFeltnessSurface ==
    /\ script = "points" /\ epc = "idle"
    /\ Cardinality(evaluations) < MaxEvals
    /\ \E pt \in FeltnessPoints : point' = pt
    /\ gen' = "feltness_surface" /\ epc' = "body"
    /\ locals' = << >> /\ out' = NoReturn
    /\ UNCHANGED <<evaluations, trajVars, figVars, surfVars>>

\* the next assignment of the body: base = ..., synergy = ..., ..., ripples = ...
FeltnessAssign ==
    /\ script = "points" /\ gen = "feltness_surface" /\ epc = "body"
    /\ Len(locals) < Len(FeltnessTerms(point[1], point[2]))
    /\ locals' = Append(locals, FeltnessTerms(point[1], point[2])[Len(locals) + 1])
    /\ UNCHANGED <<gen, epc, point, out, evaluations, trajVars, figVars, surfVars>>

\* feltness = base + synergy + ... + ripples; return feltness
FeltnessReturn ==
    /\ script = "points" /\ gen = "feltness_surface" /\ epc = "body"
    /\ Len(locals) = Len(FeltnessTerms(point[1], point[2]))
    /\ out' = FeltnessSum(locals)
    /\ evaluations' = evaluations \cup
           {[gen |-> "feltness_surface", point |-> point, out |-> out']}
    /\ epc' = "returned"
    /\ UNCHANGED <<gen, point, locals, trajVars, figVars, surfVars>>

\* the caller goes on to its next call
EvalNext ==
    /\ script = "points" /\ epc = "returned"
    /\ epc' = "idle"
    /\ UNCHANGED <<gen, point, locals, out, evaluations, trajVars, figVars, surfVars>>

InitEval ==
    /\ InitIdle
    /\ script = "points" /\ fpc = "idle" /\ loop_i = 0
    /\ wireframes = << >> /\ plotted = << >> /\ scatter = << >>
    /\ resolution_t = 0 /\ resolution_y = 0 /\ resolution = 0
    /\ t_range = << >> /\ y_range = << >>
    /\ T_mesh = << >> /\ Y_mesh = << >> /\ Z_mesh = << >>
    /\ embodiment_range = << >> /\ persistence_range = << >>
    /\ E_mesh = << >> /\ P_mesh = << >> /\ F_mesh = << >>
    /\ InitNoCaller

NextEval ==
    \/ EvalConstraintSurface \/ ConstraintSum
    \/ EvalFeltnessSurface \/ FeltnessAssign \/ FeltnessReturn
    \/ EvalNext

SpecEval == InitEval /\ [][NextEval]_vars

(***************************************************************************)
(* Properties of generate_trajectory_through_landscape.                    *)
(***************************************************************************)
StrictlyIncreasing(a) == \A k \in 1..(Len(a) - 1) : a[k] < a[k + 1]

\* the pcs of a call whose t has been assigned
AfterLinspace == {"oscillate", "drift", "clip", "smooth", "elevate", "done"}

Returned(s) == pc[s] = "done"

\* the clamped, not yet smoothed axis-2 array of trajectory id over times tt
ClampedAxis2(id, tt) ==
    Clip(AddDrift(Oscillation(id, tt), Drift(id, tt)), CLIP_LO, CLIP_HI)

\* C1 as stated: for every id in 0..4 and every N >= 1 the returned axis-1
\* sequence has length N, is strictly increasing, starts at 0 and ends at
\* 180.
C1_TimeAxisEndsAt180 ==
    \A s \in Slots :
        (Returned(s) /\ trajectory_id[s] \in ValidIds /\ num_points[s] >= 1) =>
            LET tt == ret[s][1]
            IN  /\ Len(tt) = num_points[s]
                /\ StrictlyIncreasing(tt)
                /\ tt[1] = Lit(T_START, 1)
                /\ tt[Len(tt)] = Lit(T_END, 1)

\* C1 amended: for every id in 0..4 the axis-1 array has length N, is
\* strictly increasing and starts at 0 from its assignment to the return
\* (no later statement, the smoothing included, touches it); it ends at 180
\* when N >= 2, and for N = 1 it is the single value 0.
C1_TimeAxis ==
    \A s \in Slots :
        (pc[s] \in AfterLinspace /\ trajectory_id[s] \in ValidIds
         /\ num_points[s] >= 1) =>
            LET tt == t[Cell(s)]
                n == num_points[s]
            IN  /\ Len(tt) = n
                /\ StrictlyIncreasing(tt)
                /\ tt[1] = Lit(T_START, 1)
                /\ (n >= 2 => tt[n] = Lit(T_END, 1))
                /\ (n = 1 => tt[n] = Lit(T_START, 1))
                /\ (Returned(s) => ret[s][1] = tt)

C1_Witness ==
    \E s \in Slots :
        /\ Returned(s)
        /\ trajectory_id[s] \in ValidIds
        /\ num_points[s] >= 3
        /\ ret[s][1][num_points[s]] = Lit(T_END, 1)

\* C2: for every id in 0..4 and every N >= 1, every returned axis-2 value
\* (clamped, then smoothed with the size-10 window) lies in [0.2, 1.8].
C2_Axis2InClampInterval ==
    \A s \in Slots :
        (Returned(s) /\ trajectory_id[s] \in ValidIds /\ num_points[s] >= 1) =>
            \A k \in 1..Len(ret[s][2]) :
                CLIP_LO <= ret[s][2][k] /\ ret[s][2][k] <= CLIP_HI

\* a returned trajectory long enough to hold a sample whose window lies
\* inside the line, beside the samples at both ends whose window overhangs
C2_Witness ==
    \E s \in Slots :
        /\ Returned(s)
        /\ trajectory_id[s] \in ValidIds
        /\ num_points[s] > SMOOTH_SIZE
        /\ Len(ret[s][2]) = num_points[s]

C4_ElevationFollowsSurface ==
    \A s \in Slots :
        (Returned(s) /\ trajectory_id[s] \in ValidIds /\ num_points[s] >= 1) =>
            /\ \A c \in 1..3 : Len(ret[s][c]) = num_points[s]
            /\ \A k \in 1..num_points[s] :
                  ret[s][3][k] =
                      ConstraintSurface(ret[s][1][k], ret[s][2][k]) + Z_OFFSET

C4_Witness ==
    \E s \in Slots :
        /\ Returned(s)
        /\ trajectory_id[s] \in ValidIds
        /\ num_points[s] >= 2
        /\ ret[s][2] # ClampedAxis2(trajectory_id[s], ret[s][1])
        /\ Len(ret[s][3]) = num_points[s]

\* both calls of the resampling harness concern the same, valid id
SameTrajectory == trajectory_id[0] = trajectory_id[1] /\ trajectory_id[0] \in ValidIds

\* C5 as stated: at every time value sampled by both generate(i, N) and
\* generate(i, M) the returned axis-2 value is the same.
C5_ReturnedAxis2Agree ==
    (Returned(0) /\ Returned(1) /\ SameTrajectory) =>
        \A j \in 1..Len(ret[0][1]), k \in 1..Len(ret[1][1]) :
            ret[0][1][j] = ret[1][1][k] => ret[0][2][j] = ret[1][2][k]

\* C5 amended: at every time value sampled by both calls the axis-2 value
\* before the smoothing pass (oscillation plus drift, clamped) is the same;
\* the smoothed values returned need not agree.
C5_ClampedAxis2Agree ==
    (pc[0] = "smooth" /\ pc[1] = "smooth" /\ SameTrajectory) =>
        \A j \in 1..Len(t[Cell(0)]), k \in 1..Len(t[Cell(1)]) :
            t[Cell(0)][j] = t[Cell(1)][k] => y[Cell(0)][j] = y[Cell(1)][k]

\* two samplings that share an interior time value (90 s) and both ends
C5_Witness ==
    /\ pc[0] = "smooth" /\ pc[1] = "smooth" /\ SameTrajectory
    /\ num_points[0] = 3 /\ num_points[1] = 5
    /\ t[Cell(0)][2] = t[Cell(1)][3]

\* C6 as stated: the call is rejected, and returns nothing, when N <= 0 or
\* the id is outside 0..4.
C6_FailsFast ==
    \A s \in Slots :
        Returned(s) => (num_points[s] > 0 /\ trajectory_id[s] \in ValidIds)


(***************************************************************************)
(* Properties of create_figure and of the surface generators.              *)
(***************************************************************************)
\* the cells of a 2-D array
Cells(M) == {<<r, c>> : r \in 1..Len(M), c \in 1..(IF Len(M) = 0 THEN 0 ELSE Len(M[1]))}

\* C7 as stated: in both scripts every field handed to plot_wireframe is the
\* surface generator evaluated elementwise on the coordinate grid handed
\* over with it.
C7_WireframeIsSurface ==
    \A w \in 1..Len(wireframes) :
        LET X == wireframes[w][1]
            Y == wireframes[w][2]
            Z == wireframes[w][3]
        IN  \A rc \in Cells(Z) :
                Z[rc[1]][rc[2]] =
                    IF script = "topology"
                    THEN ConstraintSurface(X[rc[1]][rc[2]], Y[rc[1]][rc[2]])
                    ELSE FeltnessSurface(X[rc[1]][rc[2]], Y[rc[1]][rc[2]])

\* C7 amended: in the topology script every field handed to plot_wireframe
\* is constraint_surface evaluated elementwise on the grid, unmodified since
\* its creation.  In the feltness script the field handed over is the
\* Gaussian-smoothed (sigma 0.8, axis 0 then axis 1) copy of feltness_surface
\* evaluated elementwise on the grid, the same copy in both calls; each
\* entity marker sits 0.05 above feltness_surface at the entity's own
\* coordinates, not above the smoothed field.
C7_WireframeField ==
    /\ \A w \in 1..Len(wireframes) :
        LET X == wireframes[w][1]
            Y == wireframes[w][2]
            Z == wireframes[w][3]
        IN  /\ Shape(Z) = Shape(X) /\ Shape(Z) = Shape(Y)
            /\ script = "topology" =>
                /\ X = T_mesh /\ Y = Y_mesh /\ Z = Z_mesh
                /\ \A rc \in Cells(Z) :
                      Z[rc[1]][rc[2]] =
                          ConstraintSurface(X[rc[1]][rc[2]], Y[rc[1]][rc[2]])
            /\ script = "feltness" =>
                /\ X = E_mesh /\ Y = P_mesh /\ Z = F_mesh
                /\ Z = GaussAxis1(GaussAxis0(
                          [r \in 1..Len(X) |-> [c \in 1..Len(X[r]) |->
                              FeltnessSurface(X[r][c], Y[r][c])]]))
    /\ script = "feltness" =>
        \A k \in 1..Len(scatter) :
            k <= Len(ENTITIES) =>
                scatter[k] = <<ENTITIES[k][1], ENTITIES[k][2],
                               FeltnessSurface(ENTITIES[k][1], ENTITIES[k][2])
                               + ENTITY_Z_OFFSET>>

\* the feltness figure finished on a grid where smoothing changes the field
C7_Witness ==
    /\ script = "feltness" /\ fpc = "done"
    /\ Len(wireframes) = 2
    /\ wireframes[1][3] = wireframes[2][3]
    /\ wireframes[2][3] # FeltnessOnGrid(E_mesh, P_mesh)
    /\ Len(scatter) = Len(ENTITIES) + 1

GenerateTrajectory(id, n) ==
    LET tt == Linspace(Lit(T_START, 1), Lit(T_END, 1), n)
        yy == UniformFilter1d(ClampedAxis2(id, tt), SMOOTH_SIZE)
    IN  <<tt, yy, Elevation(tt, yy)>>

\* the elevation field of the topology figure computed in one go
SequentialField ==
    LET g == Meshgrid(Linspace(Lit(T_START, 1), Lit(T_END, 1), resolution_t),
                      Linspace(0, Lit(Y_END, 1), resolution_y))
    IN  ConstraintOnGrid(g[1], g[2])

\* C9: however the statements of the surface evaluation and of the five
\* trajectory calls interleave, every call returns what it returns when run
\* alone in create_figure's order, and the field is the same.
C9_OrderIndependent ==
    /\ \A s \in Slots :
          Returned(s) => ret[s] = GenerateTrajectory(trajectory_id[s], num_points[s])
    /\ fpc = "wire1" => Z_mesh = SequentialField

\* all six evaluations finished
C9_Witness ==
    /\ \A s \in Slots : Returned(s) /\ Len(ret[s][2]) = FigPoints
    /\ \A s1 \in Slots, s2 \in Slots : s1 # s2 => ret[s1] # ret[s2]
    /\ fpc = "wire1"
    /\ Shape(Z_mesh) = <<resolution_y, resolution_t>>

\* C10: the coordinate grids built from L1 axis-1 and L2 axis-2 samples have
\* shape (L2, L1), and the field either generator returns for them has that
\* same shape, one value per cell (and still has it when handed to the
\* renderer).
C10_ShapePreserved ==
    /\ (script = "topology" /\ fpc \notin {"ranges", "meshgrid"}) =>
          /\ Shape(T_mesh) = <<Len(y_range), Len(t_range)>>
          /\ Shape(Y_mesh) = Shape(T_mesh)
          /\ Rectangular(T_mesh) /\ Rectangular(Y_mesh)
          /\ fpc # "surface" => (Shape(Z_mesh) = Shape(T_mesh) /\ Rectangular(Z_mesh))
    /\ (script = "feltness" /\ fpc \notin {"ranges", "meshgrid"}) =>
          /\ Shape(E_mesh) = <<Len(persistence_range), Len(embodiment_range)>>
          /\ Shape(P_mesh) = Shape(E_mesh)
          /\ Rectangular(E_mesh) /\ Rectangular(P_mesh)
          /\ fpc # "surface" => (Shape(F_mesh) = Shape(E_mesh) /\ Rectangular(F_mesh))
    /\ \A w \in 1..Len(wireframes) :
          /\ Shape(wireframes[w][3]) = Shape(wireframes[w][1])
          /\ Shape(wireframes[w][3]) = Shape(wireframes[w][2])

\* a topology grid with different numbers of axis-1 and axis-2 samples
C10_Witness ==
    /\ script = "topology" /\ fpc = "wire1"
    /\ Len(t_range) >= 2 /\ Len(y_range) >= 2 /\ Len(t_range) # Len(y_range)
    /\ Shape(Z_mesh) = <<Len(y_range), Len(t_range)>>

(***************************************************************************)
(* Properties of the surface generators on single points.                  *)
(***************************************************************************)
Abs(x) == IF x < 0 THEN -x ELSE x

\* the values feltness_surface returned at the point pt
FeltnessAt(pt) ==
    {e.out : e \in {d \in evaluations :
                      d.gen = "feltness_surface" /\ d.point = pt}}

\* C11: feltness_surface at the Human Friend's coordinates (0.95, 0.95) is
\* strictly greater than at the Search Engine's coordinates (0.05, 0.05)
C11_HumanFriendAboveSearchEngine ==
    \A h \in FeltnessAt(EntityPoint("Human Friend")) :
        \A s \in FeltnessAt(EntityPoint("Search Engine")) : h > s

\* both points have been evaluated, and they are (0.95, 0.95) and (0.05, 0.05)
C11_Witness ==
    /\ EntityPoint("Human Friend") = <<Lit(95, 100), Lit(95, 100)>>
    /\ EntityPoint("Search Engine") = <<Lit(5, 100), Lit(5, 100)>>
    /\ FeltnessAt(EntityPoint("Human Friend")) # {}
    /\ FeltnessAt(EntityPoint("Search Engine")) # {}

\* the positions of the terms of kind k in a sequence of terms
OfKind(terms, k) == {j \in 1..Len(terms) : terms[j].kind = k}

ReturnedFrom(g) == gen = g /\ epc = "returned"

\* a returned constraint_surface is the sum of exactly 5 terms, four waves
\* and then the radial one, which is -0.0075 times the squared distance of
\* (t_norm, y_norm) from (3, 2), to the last digit kept
ConstraintStructure ==
    ReturnedFrom("constraint_surface") =>
        LET t_norm == point[1] \div 30
            y_norm == point[2] * 2
            r2 == Mul(t_norm - Lit(3, 1), t_norm - Lit(3, 1))
                  + Mul(y_norm - Lit(2, 1), y_norm - Lit(2, 1))
        IN  /\ Len(locals) = 5
            /\ out = SumSeq(TermValues(locals))
            /\ OfKind(locals, "wave") = 1..4
            /\ OfKind(locals, "radial") = {5}
            /\ Abs(locals[5].value - Times(r2, -75, 10000)) <= 1

\* a term of the form amplitude * exp(-(...)) is the amplitude at its
\* centre, and has the amplitude's sign and at most its size everywhere
Localized(term, pt) ==
    /\ pt = term.centre => term.value = term.amplitude
    /\ Abs(term.value) <= Abs(term.amplitude)
    /\ term.value * term.amplitude >= 0

\* a returned feltness_surface is the sum of exactly 8 terms, g of them
\* localized Gaussian bumps or dips
FeltnessStructure(g) ==
    ReturnedFrom("feltness_surface") =>
        /\ Len(locals) = 8
        /\ out = SumSeq(TermValues(locals))
        /\ Cardinality(OfKind(locals, "gaussian")) = g
        /\ \A k \in OfKind(locals, "gaussian") : Localized(locals[k], point)

\* C12 as stated: constraint_surface is the sum of exactly 5 terms, the
\* radial one with combined coefficient -0.0075, and feltness_surface the
\* sum of exactly 8 terms of which exactly 4 are localized Gaussian terms
C12_FourGaussianTerms == ConstraintStructure /\ FeltnessStructure(4)

\* C12 (amended): constraint_surface is the sum of exactly 5 terms, the
\* radial one with combined coefficient -0.0075, and feltness_surface the
\* sum of exactly 8 terms of which exactly 5 are localized Gaussian terms:
\* uncanny_dip, ava_peak, pet_peak, human_peak and tool_valley
C12_TermStructure ==
    /\ ConstraintStructure
    /\ FeltnessStructure(5)
    /\ ReturnedFrom("feltness_surface") =>
           {locals[k].name : k \in OfKind(locals, "gaussian")} =
               {"uncanny_dip", "ava_peak", "pet_peak", "human_peak", "tool_valley"}

\* feltness_surface has returned at the centre of one of its localized
\* terms, after constraint_surface returned at a point where the radial
\* term is at least 0.0075 in size
C12_Witness ==
    /\ ReturnedFrom("feltness_surface")
    /\ point \in BumpCentres
    /\ \E k \in OfKind(locals, "gaussian") :
           locals[k].centre = point /\ locals[k].value = locals[k].amplitude
    /\ \E e \in evaluations :
           /\ e.gen = "constraint_surface"
           /\ ConstraintTerms(e.point[1], e.point[2])[5].value <= -Lit(75, 10000)

====
